---- MODULE Spec2Model ----
(***************************************************************************)
(* Model of the Saweria relay (src/index.js).  The file holds two builds   *)
(* of the same Express application: the "vercel" build (lines 1-272) and   *)
(* the "server" build (lines 274-549).  Each inbound request is handled by *)
(* an async handler that suspends at every await (fetch, body read, QR     *)
(* encoding); the upstream platform and the QR library are the             *)
(* environment.                                                            *)
(***************************************************************************)
EXTENDS Integers, Sequences, FiniteSets, TLC

VARIABLES
  build,     \* which of the two builds of src/index.js is running
  donation,  \* upstream: state of each donation, "pending" or "paid"
  req,       \* per request slot: the inbound request
  pc,        \* per request slot: the await the handler is suspended at
  calls,     \* per request slot: the outbound calls issued, in order
  reads,     \* per request slot: the body reads issued ("text" / "json")
  reply,     \* per request slot: what the upstream has answered so far
  resp       \* per request slot: the responses sent, in order

vars == <<build, donation, req, pc, calls, reads, reply, resp>>

(***************************************************************************)
(* Number of inbound requests handled, concurrently or one after another.  *)
(***************************************************************************)
NReq == 2

Reqs == 1..NReq

Builds == {"vercel", "server"}

(***************************************************************************)
(* JavaScript values, tagged by type.                                      *)
(***************************************************************************)
Undefined == [t |-> "undefined"]

Null == [t |-> "null"]

Bool(b) == [t |-> "boolean", v |-> b]

Num(n) == [t |-> "number", v |-> n]

Str(s) == [t |-> "string", v |-> s]

Obj(f) == [t |-> "object", v |-> f]

\* JavaScript truthiness, as used by `!amount`, `!token`, `if (result.data)`.
Truthy(x) ==
  CASE x.t = "undefined" -> FALSE
    [] x.t = "null" -> FALSE
    [] x.t = "boolean" -> x.v
    [] x.t = "number" -> x.v # 0
    [] x.t = "string" -> x.v # ""
    [] OTHER -> TRUE

\* Property read o.k on a value that is neither null nor undefined.
Get(o, k) == IF o.t = "object" /\ k \in DOMAIN o.v THEN o.v[k] ELSE Undefined

\* Optional chaining o?.k
OptGet(o, k) == IF o.t \in {"undefined", "null"} THEN Undefined ELSE Get(o, k)

\* A property read throws a TypeError on null and undefined.
Nullish(x) == x.t \in {"undefined", "null"}

\* A value inside a template literal `${x}`
TemplateString(x) ==
  CASE x.t = "string" -> x.v
    [] x.t = "number" -> ToString(x.v)
    [] x.t = "boolean" -> IF x.v THEN "true" ELSE "false"
    [] x.t = "object" -> "[object Object]"
    [] OTHER -> x.t

\* String.prototype.includes
RECURSIVE IncludesFrom(_, _, _)
IncludesFrom(s, sub, i) ==
  IF i + Len(sub) - 1 > Len(s) THEN FALSE
  ELSE IF SubSeq(s, i, i + Len(sub) - 1) = sub THEN TRUE
  ELSE IncludesFrom(s, sub, i + 1)

Includes(s, sub) == IncludesFrom(s, sub, 1)

(***************************************************************************)
(* Inbound request parameters (req.body, req.params, req.query).           *)
(***************************************************************************)
\* req.body of POST /qris: a field that is missing reads as undefined
QrisInputs ==
  { [amount |-> Num(10000), userId |-> Str("abc")],
    [amount |-> Undefined, userId |-> Str("abc")],
    [amount |-> Num(0), userId |-> Str("abc")],
    [amount |-> Num(10000), userId |-> Undefined],
    [amount |-> Num(10000), userId |-> Str("")] }

Tokens == {Undefined, Str(""), Str("abc")}

DonationIds == {"d1"}

NoRequest ==
  [route |-> "none", amount |-> Undefined, userId |-> Undefined,
   donationId |-> "", token |-> Undefined]

(***************************************************************************)
(* The upstream platform: response heads and response bodies.              *)
(***************************************************************************)
JsonType == Str("application/json; charset=utf-8")

HtmlType == Str("text/html; charset=UTF-8")

\* response.status and response.headers.get("content-type") (null if absent).
\* Only generateQRIS reads the head, so only /donations is given a head
\* without a Content-Type.
HeadsFor(route) ==
  { [status |-> 200, ctype |-> JsonType], [status |-> 403, ctype |-> HtmlType] }
  \cup (IF route = "qris" THEN {[status |-> 200, ctype |-> Null]} ELSE {})

QrText == "{\"data\":{\"id\":\"d1\",\"qr_string\":\"00020101\"}}"

QrNullText == "{\"data\":{\"id\":\"d1\",\"qr_string\":null}}"

QrEmptyText == "{\"data\":{\"id\":\"d1\",\"qr_string\":\"\"}}"

NoQrText == "{\"data\":{\"id\":\"d1\"}}"

DataNullText == "{\"data\":null}"

NoDataText == "{\"message\":\"Not Found\"}"

NullText == "null"

BalanceText == "{\"data\":{\"available\":150000,\"pending\":25000}}"

CloudflareText == "<!DOCTYPE html><title>Just a moment...</title><!-- cloudflare -->"

CfRayText == "error code: 1020 cf-ray: 8a1b"

HtmlText == "<!DOCTYPE html><html>Not Found</html>"

PlainText == "Bad Gateway"

NonJsonTexts == {CloudflareText, CfRayText, HtmlText, PlainText}

\* Result of JSON.parse on a text that is not JSON.
SyntaxError == [t |-> "SyntaxError"]

\* JSON.parse, tabulated over the body texts of the model.
JSONparse(text) ==
  CASE text = QrText ->
         Obj([data |-> Obj([id |-> Str("d1"), qr_string |-> Str("00020101")])])
    [] text = QrNullText ->
         Obj([data |-> Obj([id |-> Str("d1"), qr_string |-> Null])])
    [] text = QrEmptyText ->
         Obj([data |-> Obj([id |-> Str("d1"), qr_string |-> Str("")])])
    [] text = NoQrText -> Obj([data |-> Obj([id |-> Str("d1")])])
    [] text = DataNullText -> Obj([data |-> Null])
    [] text = NoDataText -> Obj([message |-> Str("Not Found")])
    [] text = NullText -> Null
    [] text = BalanceText ->
         Obj([data |-> Obj([available |-> Num(150000), pending |-> Num(25000)])])
    [] OTHER -> SyntaxError

\* The JSON bodies the upstream may send to a request of the route, given the
\* state of the polled donation: the qr_string is held while it is unpaid.
JsonTexts(route, state) ==
  CASE route = "qris" -> {QrText, QrEmptyText, NoDataText}
    [] route = "status" ->
         IF state = "pending" THEN {QrText, DataNullText}
         ELSE {QrNullText, QrEmptyText, NoQrText, NullText}
    [] OTHER -> {BalanceText, NoDataText}

\* The body the upstream sends when all is well.
MainText(route, state) ==
  CASE route = "qris" -> QrText
    [] route = "status" -> IF state = "pending" THEN QrText ELSE QrNullText
    [] OTHER -> BalanceText

\* The bodies that may come under a head with the given Content-Type: JSON
\* (or, for /donations, a mislabelled plain text) under a JSON type, pages
\* and plain text under an HTML type, either kind when the type is absent.
BodiesFor(route, state, ctype) ==
  CASE ctype = JsonType ->
         JsonTexts(route, state) \cup (IF route = "qris" THEN {PlainText} ELSE {})
    [] ctype = HtmlType ->
         CASE route = "qris" -> NonJsonTexts
           [] route = "status" -> {HtmlText}
           [] OTHER -> {CloudflareText, HtmlText}
    [] OTHER ->
         {MainText(route, state)} \cup
         (IF route = "qris" THEN {CloudflareText, PlainText} ELSE {HtmlText})

NoReply == [status |-> 0, ctype |-> Null, text |-> "", state |-> ""]

(***************************************************************************)
(* Messages of the errors raised by the runtime and the libraries.         *)
(***************************************************************************)
\* node-fetch rejecting fetch(url)
FetchErrorMsg(url) == "request to " \o url \o " failed, reason: connect ETIMEDOUT"

\* node-fetch rejecting response.text() / response.json() while reading
BodyErrorMsg(url) ==
  "Invalid response body while trying to fetch " \o url \o ": Premature close"

\* JSON.parse rejecting a text
SyntaxErrorMsg(text) ==
  "Unexpected token " \o SubSeq(text, 1, 1) \o " in JSON at position 0"

\* reading .data of null
TypeErrorMsg == "Cannot read properties of null (reading 'data')"

\* QRCode.toDataURL rejecting its input
QRErrorMsg == "The amount of data is too big to be stored in a QR Code"

\* new Date().toISOString()
Timestamps == {"2025-01-15T10:30:00.000Z"}

(***************************************************************************)
(* Outbound calls.                                                         *)
(***************************************************************************)
NoPayload == [amount |-> Undefined, payment_type |-> "", currency |-> ""]

\* fetch(API_URL_QRIS, {method: "POST", ..., body: JSON.stringify({...})})
QrisCall(amount, userId) ==
  [method |-> "POST",
   url |-> "https://backend.saweria.co/donations/" \o TemplateString(userId),
   authorization |-> Undefined,
   payload |-> [amount |-> amount, payment_type |-> "qris", currency |-> "IDR"]]

\* fetch(API_URL_CHECK_STATUS, {method: "GET", ...})
StatusCall(donationId) ==
  [method |-> "GET",
   url |-> "https://backend.saweria.co/donations/qris/" \o donationId,
   authorization |-> Undefined,
   payload |-> NoPayload]

\* The Authorization header of the balance call, per build.
BalanceAuthorization(b, token) ==
  IF b = "server" THEN Str("Bearer " \o TemplateString(token)) ELSE token

\* fetch(API_URL_BALANCE, {method: "GET", headers: {..., Authorization}})
BalanceCall(b, token) ==
  [method |-> "GET",
   url |-> "https://backend.saweria.co/donations/balance",
   authorization |-> BalanceAuthorization(b, token),
   payload |-> NoPayload]

(***************************************************************************)
(* The three upstream functions, from the body read to their return value. *)
(***************************************************************************)
\* catch (error) { return {...} } of checkPaymentStatus, checkAccountBalance
\* and of the vercel generateQRIS
Failure(msg) == [success |-> Bool(FALSE), error |-> Str(msg)]

\* catch (error) { return {...} } of generateQRIS
QrisFailure(b, msg, ts) ==
  IF b = "server"
  THEN [success |-> Bool(FALSE), error |-> Str(msg), timestamp |-> Str(ts)]
  ELSE Failure(msg)

CloudflareMsg ==
  "Cloudflare protection detected. Try using VPS with Indonesian IP or wait a few minutes."

HtmlPageMsg == "Saweria returned HTML page. User ID might be invalid."

NonJsonMsg(status) == "API returned non-JSON response: " \o ToString(status)

\* if (!contentType || !contentType.includes("application/json"))
NotJsonType(ctype) == ~Truthy(ctype) \/ ~Includes(ctype.v, "application/json")

\* The classification of a non-JSON response by the server build.
ClassifyText(status, text) ==
  IF Includes(text, "cloudflare") \/ Includes(text, "cf-ray") THEN CloudflareMsg
  ELSE IF Includes(text, "<!DOCTYPE") THEN HtmlPageMsg
  ELSE NonJsonMsg(status)

\* Does generateQRIS read the body with response.text() (and not .json())?
QrisReadsText(b, ctype) == b = "server" /\ NotJsonType(ctype)

NoQrMsg(b) ==
  IF b = "server" THEN "No QR string in response"
  ELSE "Failed to generate QRIS: No QR string in response"

\* Faulty variant of QrisBodyStep: the presence of data is tested, not that of the
\* qr_string.
QrisBodyStep_DataOnly(b, head, text) ==
  IF b = "server" /\ (~Truthy(head.ctype) \/ ~Includes(head.ctype.v, "application/json"))
  THEN [throws |-> TRUE,
        msg |-> IF Includes(text, "cloudflare") \/ Includes(text, "cf-ray")
                THEN CloudflareMsg
                ELSE IF Includes(text, "<!DOCTYPE") THEN HtmlPageMsg
                ELSE NonJsonMsg(head.status)]
  ELSE LET result == JSONparse(text) IN
       IF result = SyntaxError
       THEN [throws |-> TRUE, msg |-> SyntaxErrorMsg(text)]
       ELSE IF Nullish(result)
       THEN [throws |-> TRUE, msg |-> TypeErrorMsg]
       ELSE IF Truthy(Get(result, "data"))
       THEN [throws |-> FALSE, msg |-> ""]
       ELSE [throws |-> TRUE, msg |-> "No QR string in response"]

\* generateQRIS from the arrival of the body to its next await or its throw:
\* [throws, msg] or, when the QR string is there, the await of QRCode.toDataURL.
QrisBodyStep(b, head, text) ==
  IF QrisReadsText(b, head.ctype)
  THEN [throws |-> TRUE, msg |-> ClassifyText(head.status, text)]
  ELSE LET result == JSONparse(text) IN
       IF result = SyntaxError
       THEN [throws |-> TRUE, msg |-> SyntaxErrorMsg(text)]
       ELSE IF Nullish(result)
       THEN [throws |-> TRUE, msg |-> TypeErrorMsg]
       ELSE IF Truthy(OptGet(Get(result, "data"), "qr_string"))
       THEN [throws |-> FALSE, msg |-> ""]
       ELSE [throws |-> TRUE, msg |-> NoQrMsg(b)]

\* QRCode.toDataURL(qr_string, {errorCorrectionLevel: "H", type: "image/png",
\* width: 300}): the data URL of the PNG, standing for its base64 content.
QRImage(s) == "data:image/png;base64," \o s

\* return {success: true, data: {...result.data, qr_image: qrImageData}}
QrisSuccess(data) ==
  [success |-> Bool(TRUE),
   data |-> Obj([k \in DOMAIN data.v \cup {"qr_image"} |->
                  IF k = "qr_image" THEN Str(QRImage(data.v["qr_string"].v))
                  ELSE data.v[k]])]

\* Faulty variant of PaymentStatus: the status follows the presence of the field, so
\* that a qr_string of null or "" still reads as pending.
PaymentStatus_FieldPresent(data) ==
  IF data.t = "object" /\ "qr_string" \in DOMAIN data.v THEN "PENDING" ELSE "PAID"

\* result.data.qr_string ? "PENDING" : "PAID"
PaymentStatus(data) == IF Truthy(Get(data, "qr_string")) THEN "PENDING" ELSE "PAID"

\* checkPaymentStatus from the arrival of the body to its return value.
StatusResult(text) ==
  LET result == JSONparse(text) IN
  IF result = SyntaxError THEN Failure(SyntaxErrorMsg(text))
  ELSE IF Nullish(result) THEN Failure(TypeErrorMsg)
  ELSE IF Truthy(Get(result, "data"))
  THEN [success |-> Bool(TRUE),
        status |-> Str(PaymentStatus(Get(result, "data"))),
        data |-> Get(result, "data")]
  ELSE Failure("Invalid response structure")

\* Faulty variant of BalanceResult: a body that does not parse is reported as a
\* missing balance, the parser's message is lost.
BalanceResult_Generic(text) ==
  LET result == JSONparse(text) IN
  IF result = SyntaxError \/ Nullish(result) THEN Failure("Failed to fetch balance")
  ELSE IF Truthy(Get(result, "data"))
  THEN [success |-> Bool(TRUE), balance |-> Get(result, "data")]
  ELSE Failure("Failed to fetch balance")

\* checkAccountBalance from the arrival of the body to its return value.
BalanceResult(text) ==
  LET result == JSONparse(text) IN
  IF result = SyntaxError THEN Failure(SyntaxErrorMsg(text))
  ELSE IF Nullish(result) THEN Failure(TypeErrorMsg)
  ELSE IF Truthy(Get(result, "data"))
  THEN [success |-> Bool(TRUE), balance |-> Get(result, "data")]
  ELSE Failure("Failed to fetch balance")

\* Faulty variant of StatusCode: a failure of the upstream answered as a server error.
StatusCode_500(result) == IF Truthy(result.success) THEN 200 ELSE 500

\* res.status(result.success ? 200 : 400).json(result)
StatusCode(result) == IF Truthy(result.success) THEN 200 ELSE 400

Respond(result) == [status |-> StatusCode(result), body |-> result]

\* return res.status(400).json({success: false, error: ...})
Reject(msg) == [status |-> 400, body |-> [success |-> Bool(FALSE), error |-> Str(msg)]]

(***************************************************************************)
(* Initial state: the server is listening, no request has arrived, the     *)
(* donations known upstream are unpaid.                                    *)
(***************************************************************************)
Init ==
  /\ build \in Builds
  /\ donation = [d \in DonationIds |-> "pending"]
  /\ req = [r \in Reqs |-> NoRequest]
  /\ pc = [r \in Reqs |-> "idle"]
  /\ calls = [r \in Reqs |-> <<>>]
  /\ reads = [r \in Reqs |-> <<>>]
  /\ reply = [r \in Reqs |-> NoReply]
  /\ resp = [r \in Reqs |-> <<>>]

\* The handler of slot r sends `response` and ends.
Send(r, response) ==
  /\ resp' = [resp EXCEPT ![r] = Append(@, response)]
  /\ pc' = [pc EXCEPT ![r] = "done"]

\* Faulty variant of Fetch: the call is issued a second time (a retry).
Fetch_Retry(r, call) ==
  /\ calls' = [calls EXCEPT ![r] = Append(Append(@, call), call)]
  /\ pc' = [pc EXCEPT ![r] = "fetch"]
  /\ resp' = resp

\* The handler of slot r issues `call` and suspends at await fetch(...).
Fetch(r, call) ==
  /\ calls' = [calls EXCEPT ![r] = Append(@, call)]
  /\ pc' = [pc EXCEPT ![r] = "fetch"]
  /\ resp' = resp

\* Faulty variant of QrisInvalid: && written for ||.
QrisInvalid_And(amount, userId) == ~Truthy(amount) /\ ~Truthy(userId)

\* if (!amount || !userId)
QrisInvalid(amount, userId) == ~Truthy(amount) \/ ~Truthy(userId)

\* Faulty variant of TokenMissing: only an absent token is refused, an empty one passes.
TokenMissing_Undefined(token) == token = Undefined

\* if (!token)
TokenMissing(token) == ~Truthy(token)

\* app.post("/qris"): validation, then generateQRIS up to await fetch(...)
PostQris(r) ==
  /\ pc[r] = "idle"
  /\ \E body \in QrisInputs :
       LET amount == body.amount
           userId == body.userId IN
       /\ req' = [req EXCEPT ![r] =
                    [NoRequest EXCEPT !.route = "qris", !.amount = amount,
                                      !.userId = userId]]
       /\ IF QrisInvalid(amount, userId)
          THEN Send(r, Reject("Amount and userId are required")) /\ calls' = calls
          ELSE Fetch(r, QrisCall(amount, userId))
  /\ UNCHANGED <<build, donation, reads, reply>>

\* app.get("/status/:donationId"): checkPaymentStatus up to await fetch(...)
GetStatus(r) ==
  /\ pc[r] = "idle"
  /\ \E donationId \in DonationIds :
       /\ req' = [req EXCEPT ![r] =
                    [NoRequest EXCEPT !.route = "status", !.donationId = donationId]]
       /\ Fetch(r, StatusCall(donationId))
  /\ UNCHANGED <<build, donation, reads, reply>>

\* app.get("/balance"): validation, then checkAccountBalance up to await fetch(...)
GetBalance(r) ==
  /\ pc[r] = "idle"
  /\ \E token \in Tokens :
       /\ req' = [req EXCEPT ![r] =
                    [NoRequest EXCEPT !.route = "balance", !.token = token]]
       /\ IF TokenMissing(token)
          THEN Send(r, Reject("Token is required")) /\ calls' = calls
          ELSE Fetch(r, BalanceCall(build, token))
  /\ UNCHANGED <<build, donation, reads, reply>>

\* The catch block of the function slot r is running, and the handler's response.
Catch(r, msg) ==
  IF req[r].route = "qris"
  THEN \E ts \in Timestamps : Send(r, Respond(QrisFailure(build, msg, ts)))
  ELSE Send(r, Respond(Failure(msg)))

\* await fetch(...) resolves with the head of the response; the function goes
\* on to read the body with response.text() or response.json().
FetchResolves(r) ==
  /\ pc[r] = "fetch"
  /\ \E head \in HeadsFor(req[r].route) :
       /\ reply' = [reply EXCEPT ![r] =
                      [NoReply EXCEPT !.status = head.status, !.ctype = head.ctype]]
       /\ reads' = [reads EXCEPT ![r] =
                      Append(@, IF req[r].route = "qris" /\ QrisReadsText(build, head.ctype)
                                THEN "text" ELSE "json")]
  /\ pc' = [pc EXCEPT ![r] = "body"]
  /\ UNCHANGED <<build, donation, req, calls, resp>>

\* await fetch(...) rejects (no connection, timeout): the catch block runs.
FetchRejects(r) ==
  /\ pc[r] = "fetch"
  /\ Catch(r, FetchErrorMsg(calls[r][Len(calls[r])].url))
  /\ UNCHANGED <<build, donation, req, calls, reads, reply>>

\* The state of the donation the request of slot r is about (polls only).
DonationState(r) ==
  IF req[r].route = "status" THEN donation[req[r].donationId] ELSE ""

\* The body read rejects (connection lost while reading): the catch block runs.
BodyRejects(r) ==
  /\ pc[r] = "body"
  /\ Catch(r, BodyErrorMsg(calls[r][Len(calls[r])].url))
  /\ UNCHANGED <<build, donation, req, calls, reads, reply>>

\* generateQRIS: the body has arrived.
QrisBody(r) ==
  /\ pc[r] = "body"
  /\ req[r].route = "qris"
  /\ \E text \in BodiesFor("qris", "", reply[r].ctype) :
       LET step == QrisBodyStep(build, reply[r], text) IN
       /\ reply' = [reply EXCEPT ![r].text = text]
       /\ IF step.throws
          THEN Catch(r, step.msg)
          ELSE pc' = [pc EXCEPT ![r] = "qr"] /\ resp' = resp
  /\ UNCHANGED <<build, donation, req, calls, reads>>

\* Faulty variant of QrEncodes: `result` is a variable of the module, not of
\* the call, so after the await it holds the reply parsed last by any request.
QrEncodes_SharedResult(r) ==
  /\ pc[r] = "qr"
  /\ \/ \E q \in Reqs :
          LET result == JSONparse(reply[q].text)
              own == Get(JSONparse(reply[r].text), "data") IN
          /\ reply[q].text # ""
          /\ result.t = "object"
          /\ Get(result, "data").t = "object"
          /\ Send(r, Respond(
                [success |-> Bool(TRUE),
                 data |-> Obj([k \in DOMAIN Get(result, "data").v \cup {"qr_image"} |->
                                IF k = "qr_image"
                                THEN Str(QRImage(own.v["qr_string"].v))
                                ELSE Get(result, "data").v[k]])]))
     \/ Catch(r, QRErrorMsg)
  /\ UNCHANGED <<build, donation, req, calls, reads, reply>>

\* generateQRIS: await QRCode.toDataURL(...) resolves or rejects.
QrEncodes(r) ==
  /\ pc[r] = "qr"
  /\ \/ Send(r, Respond(QrisSuccess(Get(JSONparse(reply[r].text), "data"))))
     \/ Catch(r, QRErrorMsg)
  /\ UNCHANGED <<build, donation, req, calls, reads, reply>>

\* checkPaymentStatus: the body has arrived.
StatusBody(r) ==
  /\ pc[r] = "body"
  /\ req[r].route = "status"
  /\ \E text \in BodiesFor("status", DonationState(r), reply[r].ctype) :
       /\ reply' = [reply EXCEPT ![r].text = text, ![r].state = DonationState(r)]
       /\ Send(r, Respond(StatusResult(text)))
  /\ UNCHANGED <<build, donation, req, calls, reads>>

\* checkAccountBalance: the body has arrived.
BalanceBody(r) ==
  /\ pc[r] = "body"
  /\ req[r].route = "balance"
  /\ \E text \in BodiesFor("balance", "", reply[r].ctype) :
       /\ reply' = [reply EXCEPT ![r].text = text]
       /\ Send(r, Respond(BalanceResult(text)))
  /\ UNCHANGED <<build, donation, req, calls, reads>>

\* Upstream: the donor pays, the platform clears the qr_string.
UpstreamPays(d) ==
  /\ donation[d] = "pending"
  /\ donation' = [donation EXCEPT ![d] = "paid"]
  /\ UNCHANGED <<build, req, pc, calls, reads, reply, resp>>

Next ==
  \/ \E r \in Reqs : PostQris(r)
  \/ \E r \in Reqs : GetStatus(r)
  \/ \E r \in Reqs : GetBalance(r)
  \/ \E r \in Reqs : FetchResolves(r)
  \/ \E r \in Reqs : FetchRejects(r)
  \/ \E r \in Reqs : BodyRejects(r)
  \/ \E r \in Reqs : QrisBody(r)
  \/ \E r \in Reqs : QrEncodes(r)
  \/ \E r \in Reqs : StatusBody(r)
  \/ \E r \in Reqs : BalanceBody(r)
  \/ \E d \in DonationIds : UpstreamPays(d)

Spec == Init /\ [][Next]_vars

\* Every outbound call completes or fails, and so does every body read and
\* every QR encoding: a pending await is eventually settled.
Settles(r) ==
  \/ FetchResolves(r) \/ FetchRejects(r) \/ BodyRejects(r)
  \/ QrisBody(r) \/ StatusBody(r) \/ BalanceBody(r) \/ QrEncodes(r)

FairSpec == Spec /\ \A r \in Reqs : WF_vars(Settles(r))

(***************************************************************************)
(* Vocabulary of the properties.                                           *)
(***************************************************************************)
IsQris(r) == req[r].route = "qris"

IsStatus(r) == req[r].route = "status"

IsBalance(r) == req[r].route = "balance"

Done(r) == pc[r] = "done"

\* The body of an upstream reply has arrived at slot r.
BodyArrived(r) == reply[r].text # ""

\* data.qr_string of the upstream reply to slot r, undefined when the reply
\* is no JSON object with a data field.
ReplyData(r) ==
  LET result == JSONparse(reply[r].text) IN
  IF result = SyntaxError \/ Nullish(result) THEN Undefined ELSE Get(result, "data")

ReplyQrString(r) == OptGet(ReplyData(r), "qr_string")

NonEmptyString(x) == x.t = "string" /\ x.v # ""

(***************************************************************************)
(* C1: a POST /qris whose body lacks a truthy amount or a truthy userId is *)
(* answered with exactly 400 {success:false, error:"Amount and userId are  *)
(* required"}, and no outbound call is made for it.                        *)
(***************************************************************************)
C1_QrisValidation ==
  \A r \in Reqs :
    (IsQris(r) /\ (~Truthy(req[r].amount) \/ ~Truthy(req[r].userId))) =>
      /\ resp[r] = << [status |-> 400,
                       body |-> [success |-> Bool(FALSE),
                                 error |-> Str("Amount and userId are required")]] >>
      /\ calls[r] = <<>>
      /\ Done(r)

\* Both ways of failing the validation have been answered: an amount of 0 and
\* an empty userId.
C1_Witness ==
  \E r1, r2 \in Reqs :
    /\ IsQris(r1) /\ req[r1].amount = Num(0) /\ Len(resp[r1]) = 1
    /\ IsQris(r2) /\ req[r2].userId = Str("") /\ Len(resp[r2]) = 1

(***************************************************************************)
(* C2: a GET /balance without a token (absent or empty) is answered with   *)
(* exactly 400 {success:false, error:"Token is required"}, and no outbound *)
(* call is made for it.                                                    *)
(***************************************************************************)
C2_BalanceValidation ==
  \A r \in Reqs :
    (IsBalance(r) /\ req[r].token \in {Undefined, Str("")}) =>
      /\ resp[r] = << [status |-> 400,
                       body |-> [success |-> Bool(FALSE),
                                 error |-> Str("Token is required")]] >>
      /\ calls[r] = <<>>
      /\ Done(r)

\* An absent token and an empty token have both been refused.
C2_Witness ==
  \E r1, r2 \in Reqs :
    /\ IsBalance(r1) /\ req[r1].token = Undefined /\ Len(resp[r1]) = 1
    /\ IsBalance(r2) /\ req[r2].token = Str("") /\ Len(resp[r2]) = 1

(***************************************************************************)
(* C3: a POST /qris with amount > 0 and a non-empty userId ends, whatever  *)
(* the upstream does, either with 200, a non-empty qr_image data URL and   *)
(* the qr_string the upstream returned, or with 400 and a non-empty error  *)
(* string; a 200 is never produced when the upstream's data.qr_string is   *)
(* absent or empty.                                                        *)
(***************************************************************************)
QrisOk(r, response) ==
  /\ response.status = 200
  /\ "data" \in DOMAIN response.body
  /\ NonEmptyString(Get(response.body.data, "qr_image"))
  /\ SubSeq(Get(response.body.data, "qr_image").v, 1, 11) = "data:image/"
  /\ NonEmptyString(ReplyQrString(r))
  /\ Get(response.body.data, "qr_string") = ReplyQrString(r)

QrisFailed(response) ==
  /\ response.status = 400
  /\ "data" \notin DOMAIN response.body
  /\ "error" \in DOMAIN response.body
  /\ NonEmptyString(response.body.error)

C3_QrisOutcome ==
  \A r \in Reqs :
    (IsQris(r) /\ req[r].amount.t = "number" /\ req[r].amount.v > 0
       /\ NonEmptyString(req[r].userId) /\ Done(r)) =>
      /\ Len(resp[r]) = 1
      /\ QrisOk(r, resp[r][1]) \/ QrisFailed(resp[r][1])

\* One /qris request has ended with 200 and another, whose upstream reply
\* held an empty qr_string, with 400.
C3_Witness ==
  \E r1, r2 \in Reqs :
    /\ IsQris(r1) /\ Done(r1) /\ resp[r1][1].status = 200
    /\ IsQris(r2) /\ Done(r2) /\ resp[r2][1].status = 400
    /\ reply[r2].text = QrEmptyText

(***************************************************************************)
(* C4: a poll of /status/:donationId whose upstream reply has data gets    *)
(* the status "PENDING" if and only if that reply's data.qr_string is      *)
(* non-empty, and "PAID" when it is empty, null or absent; the status      *)
(* depends on the reply to that poll alone, so a poll answered while the   *)
(* upstream holds the qr_string gets "PENDING" and one answered after the  *)
(* upstream cleared it gets "PAID".                                        *)
(***************************************************************************)
C4_StatusDerivation ==
  \A r \in Reqs :
    (IsStatus(r) /\ Done(r) /\ BodyArrived(r) /\ Truthy(ReplyData(r))) =>
      /\ Len(resp[r]) = 1
      /\ resp[r][1].status = 200
      /\ "status" \in DOMAIN resp[r][1].body
      /\ resp[r][1].body.status \in {Str("PENDING"), Str("PAID")}
      /\ resp[r][1].body.status = Str("PENDING") <=> NonEmptyString(ReplyQrString(r))
      /\ reply[r].state = "pending" => resp[r][1].body.status = Str("PENDING")
      /\ reply[r].state = "paid" => resp[r][1].body.status = Str("PAID")

\* Two polls of the same donation: one answered "PENDING", the other "PAID"
\* on a reply whose qr_string is null.
C4_Witness ==
  \E r1, r2 \in Reqs :
    /\ IsStatus(r1) /\ IsStatus(r2) /\ req[r1].donationId = req[r2].donationId
    /\ Done(r1) /\ "status" \in DOMAIN resp[r1][1].body
    /\ resp[r1][1].body.status = Str("PENDING")
    /\ Done(r2) /\ "status" \in DOMAIN resp[r2][1].body
    /\ resp[r2][1].body.status = Str("PAID")
    /\ reply[r2].text = QrNullText

(***************************************************************************)
(* C5: in every response of the three handlers the status code is 200      *)
(* exactly when the body's success flag is true and 400 exactly when it is *)
(* false; no other code is ever sent.                                      *)
(***************************************************************************)
C5_StatusFollowsSuccess ==
  \A r \in Reqs :
    \A i \in 1..Len(resp[r]) :
      /\ resp[r][i].status \in {200, 400}
      /\ resp[r][i].body.success \in {Bool(TRUE), Bool(FALSE)}
      /\ resp[r][i].status = 200 <=> resp[r][i].body.success = Bool(TRUE)
      /\ resp[r][i].status = 400 <=> resp[r][i].body.success = Bool(FALSE)

\* A failure of the upstream call (no connection) and a success have both
\* been answered.
C5_Witness ==
  \E r1, r2 \in Reqs :
    /\ Done(r1) /\ Len(calls[r1]) = 1 /\ reply[r1] = NoReply
    /\ resp[r1][1].status = 400
    /\ Done(r2) /\ IsBalance(r2) /\ resp[r2][1].status = 200

(***************************************************************************)
(* C6: a GET /balance with a token, answered upstream by a non-JSON HTML   *)
(* body, gets 400 {success:false, error:"API returned non-JSON response:   *)
(* <status>"}, or the Cloudflare message when the body holds the           *)
(* Cloudflare markers.                                                     *)
(***************************************************************************)
BalanceNonJson(r) ==
  IsBalance(r) /\ Truthy(req[r].token) /\ Done(r) /\ reply[r].text \in NonJsonTexts

\* The claim as stated.
C6_Original ==
  \A r \in Reqs :
    BalanceNonJson(r) =>
      resp[r] = << [status |-> 400,
                    body |-> [success |-> Bool(FALSE),
                              error |-> Str(IF Includes(reply[r].text, "cloudflare")
                                               \/ Includes(reply[r].text, "cf-ray")
                                            THEN CloudflareMsg
                                            ELSE NonJsonMsg(reply[r].status))]] >>

\* C6 as amended: the response is 400 {success:false, error} where error is
\* the message of the JSON parse error raised by response.json(); /balance
\* produces neither the "API returned non-JSON response" message nor the
\* Cloudflare message.
C6_BalanceNonJson ==
  \A r \in Reqs :
    BalanceNonJson(r) =>
      /\ resp[r] = << [status |-> 400,
                       body |-> [success |-> Bool(FALSE),
                                 error |-> Str("Unexpected token "
                                               \o SubSeq(reply[r].text, 1, 1)
                                               \o " in JSON at position 0")]] >>
      /\ resp[r][1].body.error \notin
           {Str(CloudflareMsg), Str(HtmlPageMsg), Str(NonJsonMsg(reply[r].status))}

\* A /balance request has been answered after a Cloudflare page came back.
C6_Witness ==
  \E r \in Reqs : BalanceNonJson(r) /\ reply[r].text = CloudflareText
                  /\ reply[r].status = 403 /\ Len(resp[r]) = 1

(***************************************************************************)
(* C7: in generateQRIS, whenever the upstream's Content-Type is missing or *)
(* does not contain application/json, the body is never JSON-parsed and    *)
(* the call fails with the Cloudflare message if the text contains         *)
(* "cloudflare" or "cf-ray", else the invalid-user message if it contains  *)
(* "<!DOCTYPE", else "API returned non-JSON response: <status>"; under a   *)
(* JSON Content-Type none of the three is produced.                        *)
(***************************************************************************)
HeadArrived(r) == reply[r].status # 0

C7_Original ==
  \A r \in Reqs :
    (IsQris(r) /\ HeadArrived(r)) =>
      IF ~Truthy(reply[r].ctype) \/ ~Includes(reply[r].ctype.v, "application/json")
      THEN /\ \A i \in 1..Len(reads[r]) : reads[r][i] # "json"
           /\ (Done(r) /\ BodyArrived(r)) =>
                /\ resp[r][1].status = 400
                /\ resp[r][1].body.error =
                     Str(IF Includes(reply[r].text, "cloudflare")
                            \/ Includes(reply[r].text, "cf-ray")
                         THEN CloudflareMsg
                         ELSE IF Includes(reply[r].text, "<!DOCTYPE")
                         THEN HtmlPageMsg
                         ELSE NonJsonMsg(reply[r].status))
      ELSE (Done(r) /\ "error" \in DOMAIN resp[r][1].body) =>
             resp[r][1].body.error \notin
               {Str(CloudflareMsg), Str(HtmlPageMsg), Str(NonJsonMsg(reply[r].status))}

(***************************************************************************)
(* C8: every failure response of every handler has a body of exactly the   *)
(* two fields success = false and error = <message>, and no other field.   *)
(***************************************************************************)
C8_Original ==
  \A r \in Reqs :
    \A i \in 1..Len(resp[r]) :
      resp[r][i].body.success = Bool(FALSE) =>
        /\ DOMAIN resp[r][i].body = {"success", "error"}
        /\ resp[r][i].body.error.t = "string"

(***************************************************************************)
(* C9: for every inbound request the relay issues at most one outbound     *)
(* call (none when the validation fails) and never repeats it, and, the    *)
(* upstream call completing or failing, the request eventually receives    *)
(* exactly one response.                                                   *)
(***************************************************************************)
ValidationFailed(r) ==
  \/ IsQris(r) /\ (~Truthy(req[r].amount) \/ ~Truthy(req[r].userId))
  \/ IsBalance(r) /\ ~Truthy(req[r].token)

Suspended(r) == pc[r] \in {"fetch", "body", "qr"}

C9_OneCallOneResponse ==
  /\ [](\A r \in Reqs :
          /\ Len(calls[r]) <= 1
          /\ Len(resp[r]) <= 1
          /\ ValidationFailed(r) => calls[r] = <<>>
          /\ Suspended(r) => (Len(calls[r]) = 1 /\ resp[r] = <<>>)
          /\ Done(r) => Len(resp[r]) = 1)
  /\ \A r \in Reqs : Suspended(r) ~> (Done(r) /\ Len(resp[r]) = 1)

\* A request whose upstream call failed has one call and one response, next
\* to a request refused by the validation with no call at all.
C9_Witness ==
  \E r1, r2 \in Reqs :
    /\ Done(r1) /\ reply[r1] = NoReply /\ Len(calls[r1]) = 1 /\ Len(resp[r1]) = 1
    /\ Done(r2) /\ ValidationFailed(r2) /\ calls[r2] = <<>> /\ Len(resp[r2]) = 1

(***************************************************************************)
(* C10: for every GET /balance with a non-empty token t, the outbound call *)
(* to the balance endpoint carries the Authorization header "Bearer "      *)
(* followed by t.                                                          *)
(***************************************************************************)
C10_Original ==
  \A r \in Reqs :
    (IsBalance(r) /\ NonEmptyString(req[r].token)) =>
      /\ Len(calls[r]) = 1
      /\ calls[r][1].url = "https://backend.saweria.co/donations/balance"
      /\ calls[r][1].authorization = Str("Bearer " \o req[r].token.v)

(***************************************************************************)
(* C11: under any interleaving of concurrently handled requests, the       *)
(* response to each request is determined only by that request's own       *)
(* parameters and the upstream reply to its own outbound call; no          *)
(* request's response, status code or outbound payload is affected by      *)
(* another request, because no mutable state is shared between requests.   *)
(***************************************************************************)
\* Everything the relay holds for the request of slot r.
Slot(r) == <<req[r], pc[r], calls[r], reads[r], reply[r], resp[r]>>

\* The outbound call of slot r carries the parameters of its own request.
OwnCall(r) ==
  Len(calls[r]) >= 1 =>
    LET call == calls[r][1] IN
    CASE IsQris(r) ->
           /\ call.method = "POST"
           /\ call.url = "https://backend.saweria.co/donations/" \o req[r].userId.v
           /\ call.payload.amount = req[r].amount
      [] IsStatus(r) ->
           /\ call.method = "GET"
           /\ call.url = "https://backend.saweria.co/donations/qris/" \o req[r].donationId
           /\ call.payload.amount = Undefined
      [] IsBalance(r) ->
           /\ call.method = "GET"
           /\ call.url = "https://backend.saweria.co/donations/balance"
           /\ call.authorization \in {req[r].token, Str("Bearer " \o req[r].token.v)}
      [] OTHER -> FALSE

\* A successful response of slot r relays the data of the reply to its own call.
OwnData(r) ==
  (Done(r) /\ resp[r][1].status = 200) =>
    LET body == resp[r][1].body IN
    CASE IsQris(r) ->
           /\ ReplyData(r).t = "object"
           /\ DOMAIN body.data.v = DOMAIN ReplyData(r).v \cup {"qr_image"}
           /\ \A k \in DOMAIN ReplyData(r).v : body.data.v[k] = ReplyData(r).v[k]
           /\ body.data.v["qr_image"] =
                Str("data:image/png;base64," \o ReplyQrString(r).v)
      [] IsStatus(r) -> body.data = ReplyData(r) /\ Truthy(ReplyData(r))
      [] IsBalance(r) -> body.balance = ReplyData(r) /\ Truthy(ReplyData(r))
      [] OTHER -> FALSE

\* Two requests with the same parameters and the same upstream reply, ending
\* both in success or both in failure, got the same call and the same response,
\* whatever else was handled in between.
SameInSameOut(r1, r2) ==
  (/\ Done(r1) /\ Done(r2)
   /\ req[r1] = req[r2]
   /\ reply[r1] = reply[r2]
   /\ resp[r1][1].status = resp[r2][1].status) =>
     (calls[r1] = calls[r2] /\ resp[r1] = resp[r2])

====
